---- MODULE Spec2Model ----
(***************************************************************************)
(* Model of the moonbeam payment channel receiver: the channel state       *)
(* machine (channels/channels.go), the closure transaction and its         *)
(* validation (scripts.go) and the receiver orchestrator that persists     *)
(* channel states with compare-and-swap (receiver/receiver.go).            *)
(*                                                                         *)
(* channels.go calls GetClosureTx(balance) and                             *)
(* GetClosureTxSigned(balance, senderSig, privKey); the operators below    *)
(* follow those call shapes, with the bodies of scripts.go.                *)
(***************************************************************************)
EXTENDS Integers, Sequences, FiniteSets, TLC

\* ------------------------------------------------------------------ bounds
\* Width of the signed integers of the model (int64 in the source).  All
\* arithmetic on amounts is two's complement of this width.
IntBits == 24
\* Largest number of Send commits on the channel.
MaxCount == 2

MaxInt == 2^(IntBits - 1) - 1

Wrap(x) == ((x + 2^(IntBits - 1)) % 2^IntBits) - 2^(IntBits - 1)

\* ------------------------------------------------------- program constants
StatusNotStarted == 1
StatusPreInfoGathered == 2
StatusOpen == 3
StatusClosing == 4
StatusClosed == 5

defaultTimeout == 3

\* channels.MinFundingConf and channels.CloseWindow, the bounds receiver.go
\* puts on the confirmations of a funding output: with defaultTimeout = 3 an
\* output is accepted at 1 or 2 confirmations.
MinFundingConf == 1
CloseWindow == 1

ChannelID == "ch1"

\* --------------------------------------------------- transactions and keys
NoTx == [txid |-> "", vout |-> 0, outs |-> <<>>]

NoSig == [signer |-> "none", tx |-> NoTx, intact |-> FALSE]

\* txscript.RawTxInSignature with SigHashAll: the signature commits to the
\* signer's key and to the whole transaction (its input and all outputs).
RawTxInSignature(tx, privKey) == [signer |-> privKey, tx |-> tx, intact |-> TRUE]

\* A signature with one byte flipped.
Tamper(sig) == [sig EXCEPT !.intact = FALSE]

DefaultState ==
    [Timeout |-> defaultTimeout, Fee |-> 75000, Status |-> StatusNotStarted,
     SenderPubKey |-> "", ReceiverPubKey |-> "",
     FundingTxID |-> "", FundingVout |-> 0, FundingAmount |-> 0,
     BlockHeight |-> 0, Balance |-> 0, Count |-> 0, SenderSig |-> NoSig]

derivePubKey(privKey) == privKey

fundingTxScript(senderPubKey, receiverPubKey, timeout) ==
    [sender |-> senderPubKey, receiver |-> receiverPubKey, timeout |-> timeout]

\* The funding address is the P2SH wrapper of the redeem script.
GetFundingScript(s) ==
    LET script == fundingTxScript(s.SenderPubKey, s.ReceiverPubKey, s.Timeout)
    IN  [script |-> script, addr |-> <<"p2sh", script>>]

spendFundingTx(s) == [txid |-> s.FundingTxID, vout |-> s.FundingVout, outs |-> <<>>]

sendToAddress(amount, addr) == [Value |-> amount, PkScript |-> <<"p2pkh", addr>>]

GetClosureTx(s, balance) ==
    LET receiveAmount == balance
        senderAmount == Wrap(Wrap(s.FundingAmount - balance) - s.Fee)
        tx == spendFundingTx(s)
        o1 == IF receiveAmount > 0
              THEN <<sendToAddress(receiveAmount, s.ReceiverPubKey)>> ELSE <<>>
        o2 == IF senderAmount > 0
              THEN <<sendToAddress(senderAmount, s.SenderPubKey)>> ELSE <<>>
    IN  [tx EXCEPT !.outs = o1 \o o2]

\* The serialized transaction: the unsigned transaction plus the signature
\* script  OP_FALSE <senderSig> <receiverSig> OP_TRUE <redeemScript>.
GetClosureTxSigned(s, balance, senderSig, privKey) ==
    LET tx == GetClosureTx(s, balance)
        script == GetFundingScript(s).script
    IN  [tx |-> tx, nin |-> 1,
         sigScript |-> [senderSig |-> senderSig,
                        receiverSig |-> RawTxInSignature(tx, privKey),
                        branch |-> TRUE, script |-> script]]

\* OP_CHECKSIG of one signature against one public key.
CheckSig(sig, pubKey, tx) ==
    /\ sig.intact
    /\ derivePubKey(sig.signer) = pubKey
    /\ sig.tx = tx

\* Decodes the raw transaction, requires one input and runs the script engine
\* on the P2SH output of the funding script: the redeem script must hash to
\* the funding address and its IF branch is a 2-of-2 CHECKMULTISIG.
validateTx(s, rawTx) ==
    LET script == fundingTxScript(s.SenderPubKey, s.ReceiverPubKey, s.Timeout)
    IN  /\ rawTx.nin = 1
        /\ rawTx.sigScript.script = script
        /\ rawTx.sigScript.branch
        /\ CheckSig(rawTx.sigScript.senderSig, script.sender, rawTx.tx)
        /\ CheckSig(rawTx.sigScript.receiverSig, script.receiver, rawTx.tx)

\* ------------------------------------------------ channel state transitions
\* Each transition returns the receiver's new state and an error ("" = nil).
validateAmount(ss, amount) ==
    IF amount <= 0
    THEN [bal |-> ss.Balance, err |-> "amount must be positive"]
    ELSE LET newBalance == Wrap(ss.Balance + amount)
         IN  IF Wrap(newBalance + ss.Fee) > ss.FundingAmount
             THEN [bal |-> ss.Balance, err |-> "insufficient channel capacity"]
             ELSE [bal |-> newBalance, err |-> ""]

validateSenderSig(r, privKey, balance, senderSig) ==
    validateTx(r, GetClosureTxSigned(r, balance, senderSig, privKey))

AcceptChannel(state, privKey) ==
    [state EXCEPT !.ReceiverPubKey = derivePubKey(privKey),
                  !.Status = StatusPreInfoGathered]

ReceiverOpen(r, privKey, txid, vout, amount, height, senderSig) ==
    LET r1 == [r EXCEPT !.FundingTxID = txid, !.FundingVout = vout,
                        !.FundingAmount = amount, !.BlockHeight = height]
    IN  IF ~validateSenderSig(r1, privKey, 0, senderSig)
        THEN [state |-> r1, err |-> "invalid signature"]
        ELSE [state |-> [r1 EXCEPT !.SenderSig = senderSig, !.Status = StatusOpen],
              err |-> ""]

\* Receiver.Send with a value receiver: the checks run, the update of the
\* state is lost.
ReceiverSend_onCopy(r, privKey, amount, senderSig) ==
    IF r.Status # StatusOpen
    THEN [state |-> r, err |-> "channel not open"]
    ELSE LET va == validateAmount(r, amount)
         IN  IF va.err # ""
             THEN [state |-> r, err |-> va.err]
             ELSE IF ~validateSenderSig(r, privKey, va.bal, senderSig)
                  THEN [state |-> r, err |-> "invalid signature"]
                  ELSE [state |-> r, err |-> ""]

ReceiverSend(r, privKey, amount, senderSig) ==
    IF r.Status # StatusOpen
    THEN [state |-> r, err |-> "channel not open"]
    ELSE LET va == validateAmount(r, amount)
         IN  IF va.err # ""
             THEN [state |-> r, err |-> va.err]
             ELSE IF ~validateSenderSig(r, privKey, va.bal, senderSig)
                  THEN [state |-> r, err |-> "invalid signature"]
                  ELSE [state |-> [r EXCEPT !.Count = r.Count + 1,
                                            !.Balance = va.bal,
                                            !.SenderSig = senderSig],
                        err |-> ""]

NoRawTx == [tx |-> NoTx, nin |-> 0,
            sigScript |-> [senderSig |-> NoSig, receiverSig |-> NoSig,
                           branch |-> FALSE,
                           script |-> fundingTxScript("", "", 0)]]

\* Receiver.Close accepting only status Open.
ReceiverClose_openOnly(r, privKey) ==
    IF r.Status # StatusOpen
    THEN [state |-> r, rawTx |-> NoRawTx,
          err |-> "cannot close channel that isn't open"]
    ELSE [state |-> [r EXCEPT !.Status = StatusClosing],
          rawTx |-> GetClosureTxSigned(r, r.Balance, r.SenderSig, privKey),
          err |-> ""]

ReceiverClose(r, privKey) ==
    IF r.Status # StatusOpen /\ r.Status # StatusClosing
    THEN [state |-> r, rawTx |-> NoRawTx,
          err |-> "cannot close channel that isn't open"]
    ELSE [state |-> [r EXCEPT !.Status = StatusClosing],
          rawTx |-> GetClosureTxSigned(r, r.Balance, r.SenderSig, privKey),
          err |-> ""]

ReceiverCloseMined(r) == [r EXCEPT !.Status = StatusClosed]


\* channels.Receiver.Validate, called by Receiver.validate: the check that
\* Send runs on the status and the amount, without mutation.
ReceiverValidate(r, amount, payment) ==
    /\ r.Status = StatusOpen
    /\ validateAmount(r, amount).err = ""

checkSupportedAddress(kind) ==
    IF kind = "wrongnet" THEN "wrong net"
    ELSE IF kind \in {"p2pkh", "p2sh"} THEN "" ELSE "unsupported output type"

\* ------------------------------------------------------------- sender role
\* The sender's transitions return the sender's new state, and an error or
\* a signature where the code returns one.
OpenChannel(privKey, kind) ==
    IF checkSupportedAddress(kind) # ""
    THEN [state |-> DefaultState, err |-> checkSupportedAddress(kind)]
    ELSE [state |-> [DefaultState EXCEPT !.SenderPubKey = derivePubKey(privKey)],
          err |-> ""]

SenderReceivedPubKey(s, pubKey, kind) ==
    IF checkSupportedAddress(kind) # ""
    THEN [state |-> s, err |-> checkSupportedAddress(kind)]
    ELSE [state |-> [s EXCEPT !.ReceiverPubKey = pubKey], err |-> ""]

signBalance(s, privKey, balance) ==
    RawTxInSignature(GetClosureTx(s, balance), privKey)

SenderFundingTxMined(s, privKey, txid, vout, amount, height) ==
    LET s1 == [s EXCEPT !.FundingTxID = txid, !.FundingVout = vout,
                        !.FundingAmount = amount, !.BlockHeight = height,
                        !.Status = StatusOpen]
    IN  [state |-> s1, sig |-> signBalance(s1, privKey, 0)]

SenderPrepareSend(s, privKey, amount) ==
    LET va == validateAmount(s, amount)
    IN  IF va.err # ""
        THEN [state |-> s, sig |-> NoSig, err |-> va.err]
        ELSE [state |-> s, sig |-> signBalance(s, privKey, va.bal), err |-> ""]

\* Sender.SendAccepted that forgets the payment counter.
SenderSendAccepted_noCount(s, amount) ==
    [s EXCEPT !.Balance = Wrap(@ + amount)]

SenderSendAccepted(s, amount) ==
    [s EXCEPT !.Count = Wrap(@ + 1), !.Balance = Wrap(@ + amount)]

SenderCloseMined(s) == [s EXCEPT !.Status = StatusClosed]

\* ------------------------------------------------------------ collaborators
\* The bitcoin node's UTXO set: outpoints of the funding address (one of
\* them worth less than the fee), a coinbase
\* output, an output of another address and a bare multisig of two addresses.
\* Any other outpoint is unknown to the node.
NodeTxOut(txid, vout, fundingAddr) ==
    CASE txid = "txA" /\ vout = 0 ->
           <<[Value |-> 1000000, Coinbase |-> FALSE, Addresses |-> <<fundingAddr>>, MinedAt |-> 100]>>
      [] txid = "txB" /\ vout = 0 ->
           <<[Value |-> 50000, Coinbase |-> FALSE, Addresses |-> <<fundingAddr>>, MinedAt |-> 100]>>
      [] txid = "txD" /\ vout = 0 ->
           <<[Value |-> 1000000, Coinbase |-> TRUE, Addresses |-> <<fundingAddr>>, MinedAt |-> 100]>>
      [] txid = "txE" /\ vout = 0 ->
           <<[Value |-> 1000000, Coinbase |-> FALSE, Addresses |-> <<<<"p2pkh", "eve">>>>, MinedAt |-> 100]>>
      [] txid = "txF" /\ vout = 0 ->
           <<[Value |-> 1000000, Coinbase |-> FALSE,
              Addresses |-> <<fundingAddr, <<"p2pkh", "eve">>>>, MinedAt |-> 100]>>
      [] OTHER -> <<>>

\* The confirmation counts the node may report for an unspent output.
Confirmations == 0..defaultTimeout

\* getTxOut followed by getHeight: the amount, the confirmations and the
\* height of the best block, which is conf - 1 blocks above the block that
\* mined the output.
getTxOut(txid, vout, addr, conf) ==
    LET txout == NodeTxOut(txid, vout, addr)
    IN  IF txout = <<>> THEN [err |-> "cannot find utxo", value |-> 0, conf |-> 0, height |-> 0]
        ELSE IF txout[1].Coinbase
             THEN [err |-> "cannot use coinbase", value |-> 0, conf |-> 0, height |-> 0]
        ELSE IF Len(txout[1].Addresses) # 1
             THEN [err |-> "wrong number of addresses", value |-> 0, conf |-> 0, height |-> 0]
        ELSE IF txout[1].Addresses[1] # addr
             THEN [err |-> "bad address", value |-> 0, conf |-> 0, height |-> 0]
        ELSE [err |-> "", value |-> txout[1].Value, conf |-> conf,
              height |-> txout[1].MinedAt + conf - 1]

\* The payment directory: its answer, or an I/O error.
HasTarget(target, dir) ==
    IF dir # "up" THEN [has |-> FALSE, err |-> "directory unavailable"]
    ELSE [has |-> target \in {"alice"}, err |-> ""]

\* Payment envelopes: the JSON of models.Payment {amount, target}, or bytes
\* that do not decode.  NoBlob is the nil payment of Open and Close.
NoBlob == [wellformed |-> FALSE, Amount |-> 0, Target |-> ""]

Garbage == [wellformed |-> FALSE, Amount |-> 0, Target |-> "{"]

Payment(amount, target) == [wellformed |-> TRUE, Amount |-> amount, Target |-> target]

\* The receiver's key of the channel, derived from the record's key path.
getKey == "receiver"

\* storage.Storage.Get: the record stored under the id, or nil (here the
\* empty sequence) with no error when there is none.
Get(store, id) == IF id \in DOMAIN store THEN <<store[id]>> ELSE <<>>

\* storage.Storage.Update: compare-and-swap of the record's state with an
\* optional append to the payment log.
Update(store, log, id, prevState, newState, payment) ==
    IF id \notin DOMAIN store \/ store[id] # prevState
    THEN [db |-> store, payments |-> log, err |-> "conflict"]
    ELSE [db |-> [store EXCEPT ![id] = newState],
          payments |-> IF payment = NoBlob THEN log
                       ELSE [log EXCEPT ![id] = Append(log[id], payment)],
          err |-> ""]

\* ----------------------------------------------------------------- requests
\* The amounts a payment may carry: non-positive ones, a small one, the
\* remaining capacity of the channel and one more, and the largest integer.
SendAmounts(ss) ==
    LET cap == Wrap(Wrap(ss.FundingAmount - ss.Fee) - ss.Balance)
    IN  {-1, 0, 100000, cap, Wrap(cap + 1), MaxInt}

\* What the sender signs for a payment of amount: the closure transaction
\* that pays the receiver the new balance.
SenderSigFor(ss, amount) ==
    RawTxInSignature(GetClosureTx(ss, Wrap(ss.Balance + amount)), "sender")

\* Send requests: a well-formed payment to a known target carrying the
\* sender's signature, for each amount; and requests with one fault: an
\* unknown target, an envelope that does not decode, an unavailable
\* directory, a signature with a byte flipped, somebody else's signature,
\* the signature of the previous payment.  While handlers run concurrently
\* the clients send fewer kinds of requests.
SendRequests(ss, conc) ==
    {[blob |-> Payment(a, "alice"), sig |-> SenderSigFor(ss, a), dir |-> "up"] :
        a \in IF conc THEN {100000, Wrap(Wrap(ss.FundingAmount - ss.Fee) - ss.Balance)}
              ELSE SendAmounts(ss)}
    \cup {[blob |-> Payment(100000, "bob"), sig |-> SenderSigFor(ss, 100000), dir |-> "up"],
          [blob |-> Payment(100000, "alice"), sig |-> Tamper(SenderSigFor(ss, 100000)), dir |-> "up"]}
    \cup (IF conc THEN {} ELSE
         {[blob |-> Garbage, sig |-> SenderSigFor(ss, 100000), dir |-> "up"],
          [blob |-> Payment(100000, "alice"), sig |-> SenderSigFor(ss, 100000), dir |-> "down"],
          [blob |-> Payment(100000, "alice"),
           sig |-> RawTxInSignature(GetClosureTx(ss, Wrap(ss.Balance + 100000)), "eve"), dir |-> "up"],
          [blob |-> Payment(100000, "alice"), sig |-> ss.SenderSig, dir |-> "up"]})

\* What the sender signs when the funding output (txid, vout) is mined: the
\* closure transaction of balance 0.
OpenSigFor(ss, txid, vout, conf, privKey) ==
    LET addr == GetFundingScript(ss).addr
        r1 == [ss EXCEPT !.FundingTxID = txid, !.FundingVout = vout,
                         !.FundingAmount = getTxOut(txid, vout, addr, conf).value]
    IN  RawTxInSignature(GetClosureTx(r1, 0), privKey)

\* Open requests, with the confirmations the node reports at that moment:
\* a funding output within the confirmation window and the sender's
\* signature; and requests with one fault.
OpenRequests(ss, conc) ==
    {[txid |-> "txA", vout |-> 0, conf |-> MinFundingConf,
      sig |-> OpenSigFor(ss, "txA", 0, MinFundingConf, "sender")],
     [txid |-> "txA", vout |-> 1, conf |-> MinFundingConf,
      sig |-> OpenSigFor(ss, "txA", 1, MinFundingConf, "sender")],
     [txid |-> "txA", vout |-> 0, conf |-> MinFundingConf,
      sig |-> Tamper(OpenSigFor(ss, "txA", 0, MinFundingConf, "sender"))]}
    \cup (IF conc THEN {} ELSE
         {[txid |-> op[1], vout |-> op[2], conf |-> MinFundingConf,
           sig |-> OpenSigFor(ss, op[1], op[2], MinFundingConf, "sender")] :
             op \in {<<"txB", 0>>, <<"txD", 0>>, <<"txE", 0>>, <<"txF", 0>>}}
         \cup {[txid |-> "txA", vout |-> 0, conf |-> conf,
                sig |-> OpenSigFor(ss, "txA", 0, conf, "sender")] : conf \in Confirmations}
         \cup {[txid |-> "txA", vout |-> 0, conf |-> MinFundingConf, sig |-> sig] :
                 sig \in {OpenSigFor(ss, "txA", 0, MinFundingConf, "eve"), ss.SenderSig}})

\* -------------------------------------------------------------------- state
\* Two RPC handlers run concurrently.
Workers == {"w1", "w2"}

VARIABLES
    db,         \* the store: channel id -> persisted SharedState
    payments,   \* the store: channel id -> payment log
    broadcast,  \* the raw transaction submitted to the node last
    rpc,        \* per worker: the RPC it runs and how far it got
    concurrent, \* whether the server runs handlers concurrently
    closed,     \* history: the balance, count and log of the first Close commit
    pair        \* a sender and a receiver role run side by side, without a server

vars == <<db, payments, broadcast, rpc, concurrent, closed, pair>>

\* The two roles before the handshake; phase "off" when only the server runs.
NoPair == [sender |-> DefaultState, receiver |-> DefaultState, phase |-> "off",
           amount |-> 0, sig |-> NoSig, err |-> ""]

IdleRpc == [pc |-> "idle", op |-> "", prev |-> DefaultState, new |-> DefaultState,
            blob |-> NoBlob, rawTx |-> NoRawTx, res |-> ""]

Init ==
    /\ db = <<>>
    /\ payments = <<>>
    /\ broadcast = NoRawTx
    /\ rpc = [w \in Workers |-> IdleRpc]
    /\ concurrent \in BOOLEAN
    /\ closed = [set |-> FALSE, Balance |-> 0, Count |-> 0, log |-> <<>>]
    /\ pair = NoPair

\* Worker w may take a request: it is idle and, unless handlers run
\* concurrently, no other handler is running.
Accepts(w) ==
    /\ rpc[w].pc = "idle"
    /\ concurrent \/ \A v \in Workers : rpc[v].pc = "idle"

\* The handler of worker w has its response before it called db.Update.
Return(w, op, res) ==
    /\ rpc' = [rpc EXCEPT ![w] = [IdleRpc EXCEPT !.pc = "done", !.op = op, !.res = res]]
    /\ UNCHANGED <<concurrent, closed, pair>>

\* The handler of worker w has loaded the channel and run the transition; it
\* is about to call db.Update.
ToUpdate(w, op, prev, new, blob, rawTx) ==
    /\ rpc' = [rpc EXCEPT ![w] = [pc |-> "update", op |-> op, prev |-> prev, new |-> new,
                                  blob |-> blob, rawTx |-> rawTx, res |-> ""]]
    /\ UNCHANGED <<concurrent, closed, pair>>

\* The handler of worker w returns its response.
Respond(w) ==
    /\ rpc[w].pc = "done"
    /\ rpc' = [rpc EXCEPT ![w] = IdleRpc]
    /\ UNCHANGED <<db, payments, broadcast, concurrent, closed, pair>>

\* Receiver.get: loads the record; a missing record is a nil pointer that
\* the handler dereferences.
Missing == Get(db, ChannelID) = <<>>

\* Receiver.Create: a channel in status PreInfoGathered is stored under a
\* fresh random id.
Create(w) ==
    /\ Accepts(w)
    /\ Missing
    /\ \E pubKeyOK \in BOOLEAN, kind \in {"p2pkh", "p2sh", "p2pk", "wrongnet"} :
         IF ~pubKeyOK
         THEN Return(w, "Create", "bad pubkey") /\ UNCHANGED <<db, payments, broadcast>>
         ELSE IF checkSupportedAddress(kind) # ""
         THEN Return(w, "Create", checkSupportedAddress(kind))
              /\ UNCHANGED <<db, payments, broadcast>>
         ELSE /\ db' = (ChannelID :>
                          AcceptChannel([DefaultState EXCEPT !.SenderPubKey = "sender"],
                                        getKey))
              /\ payments' = (ChannelID :> <<>>)
              /\ Return(w, "Create", "ok")
              /\ UNCHANGED broadcast

\* Receiver.Open up to the call of db.Update: the node lookups, the checks
\* of the confirmations and the receiver role's Open.
\* Receiver.Open without the upper bound on the confirmations.
OpenResult_noMaxConf(c, req) ==
    LET addr == GetFundingScript(c).addr
        out == getTxOut(req.txid, req.vout, addr, req.conf)
    IN  IF out.err # "" THEN [state |-> c, err |-> out.err]
        ELSE IF out.conf < MinFundingConf THEN [state |-> c, err |-> "too few confirmations"]
        ELSE ReceiverOpen(c, getKey, req.txid, req.vout, out.value, out.height, req.sig)

OpenResult(c, req) ==
    LET addr == GetFundingScript(c).addr
        out == getTxOut(req.txid, req.vout, addr, req.conf)
        maxConf == c.Timeout - CloseWindow
    IN  IF out.err # "" THEN [state |-> c, err |-> out.err]
        ELSE IF out.conf < MinFundingConf THEN [state |-> c, err |-> "too few confirmations"]
        ELSE IF out.conf > maxConf THEN [state |-> c, err |-> "too many confirmations"]
        ELSE ReceiverOpen(c, getKey, req.txid, req.vout, out.value, out.height, req.sig)

Open(w) ==
    /\ Accepts(w)
    /\ UNCHANGED <<db, payments, broadcast>>
    /\ IF Missing
       THEN Return(w, "Open", "panic")
       ELSE \E req \in OpenRequests(db[ChannelID], concurrent) :
              LET c == db[ChannelID]
                  o == OpenResult(c, req)
              IN  IF o.err # ""
                  THEN Return(w, "Open", o.err)
                  ELSE ToUpdate(w, "Open", c, o.state, NoBlob, NoRawTx)

\* Receiver.validate: decodes the envelope, asks the receiver role and the
\* directory.
validate(c, req) ==
    IF ~req.blob.wellformed THEN [valid |-> FALSE, err |-> "invalid payment"]
    ELSE IF ~ReceiverValidate(c, req.blob.Amount, req.blob) THEN [valid |-> FALSE, err |-> ""]
    ELSE LET h == HasTarget(req.blob.Target, req.dir)
         IN  IF h.err # "" THEN [valid |-> FALSE, err |-> h.err]
             ELSE [valid |-> h.has, err |-> ""]

\* Receiver.Send up to the call of db.Update.
SendResult(c, req) ==
    LET v == validate(c, req)
    IN  IF v.err # "" THEN [state |-> c, err |-> v.err]
        ELSE IF ~v.valid THEN [state |-> c, err |-> "invalid payment"]
        ELSE ReceiverSend(c, getKey, req.blob.Amount, req.sig)

\* Send that calls db.Update before it looks at the error of the receiver
\* role's Send.
Send_updateBeforeCheck(w) ==
    /\ Accepts(w)
    /\ UNCHANGED <<broadcast, concurrent, closed, pair>>
    /\ IF Missing
       THEN /\ rpc' = [rpc EXCEPT ![w] = [IdleRpc EXCEPT !.pc = "done", !.op = "Send",
                                                         !.res = "panic"]]
            /\ UNCHANGED <<db, payments>>
       ELSE \E req \in SendRequests(db[ChannelID], concurrent) :
              LET c == db[ChannelID]
                  v == validate(c, req)
                  o == ReceiverSend(c, getKey, req.blob.Amount, req.sig)
                  u == Update(db, payments, ChannelID, c, o.state, req.blob)
              IN  IF v.err # "" \/ ~v.valid
                  THEN /\ rpc' = [rpc EXCEPT ![w] =
                                    [IdleRpc EXCEPT !.pc = "done", !.op = "Send",
                                                    !.res = IF v.err # "" THEN v.err
                                                            ELSE "invalid payment"]]
                       /\ UNCHANGED <<db, payments>>
                  ELSE IF o.err # ""
                  THEN /\ db' = u.db
                       /\ payments' = u.payments
                       /\ rpc' = [rpc EXCEPT ![w] = [IdleRpc EXCEPT !.pc = "done",
                                                                   !.op = "Send",
                                                                   !.res = o.err]]
                  ELSE /\ c.Count < MaxCount
                       /\ rpc' = [rpc EXCEPT ![w] =
                                    [pc |-> "update", op |-> "Send", prev |-> c,
                                     new |-> o.state, blob |-> req.blob,
                                     rawTx |-> NoRawTx, res |-> ""]]
                       /\ UNCHANGED <<db, payments>>

Send(w) ==
    /\ Accepts(w)
    /\ UNCHANGED <<db, payments, broadcast>>
    /\ IF Missing
       THEN Return(w, "Send", "panic")
       ELSE \E req \in SendRequests(db[ChannelID], concurrent) :
              LET c == db[ChannelID]
                  o == SendResult(c, req)
              IN  IF o.err # ""
                  THEN Return(w, "Send", o.err)
                  ELSE /\ c.Count < MaxCount
                       /\ ToUpdate(w, "Send", c, o.state, req.blob, NoRawTx)

\* Receiver.Validate: read-only.
Validate(w) ==
    /\ Accepts(w)
    /\ UNCHANGED <<db, payments, broadcast>>
    /\ IF Missing
       THEN Return(w, "Validate", "panic")
       ELSE \E req \in SendRequests(db[ChannelID], concurrent) :
              LET v == validate(db[ChannelID], req)
              IN  Return(w, "Validate",
                         IF v.err # "" THEN v.err ELSE IF v.valid THEN "valid" ELSE "not valid")

\* Receiver.Status: read-only.
Status(w) ==
    /\ Accepts(w)
    /\ UNCHANGED <<db, payments, broadcast>>
    /\ Return(w, "Status", IF Missing THEN "panic" ELSE "ok")

\* Receiver.Close up to the call of db.Update.
Close(w) ==
    /\ Accepts(w)
    /\ UNCHANGED <<db, payments, broadcast>>
    /\ IF Missing
       THEN Return(w, "Close", "panic")
       ELSE LET c == db[ChannelID]
                o == ReceiverClose(c, getKey)
            IN  IF o.err # ""
                THEN Return(w, "Close", o.err)
                ELSE ToUpdate(w, "Close", c, o.state, NoBlob, o.rawTx)

\* db.Update called without the payment blob.
DoUpdate_noBlob(w) ==
    /\ rpc[w].pc = "update"
    /\ LET u == Update(db, payments, ChannelID, rpc[w].prev, rpc[w].new, NoBlob)
       IN  /\ db' = u.db
           /\ payments' = u.payments
           /\ rpc' = [rpc EXCEPT
                        ![w].pc = IF u.err = "" /\ rpc[w].op = "Close" THEN "bcast" ELSE "done",
                        ![w].new = DefaultState,
                        ![w].res = IF u.err = "" THEN "ok" ELSE u.err]
           /\ closed' = IF u.err = "" /\ rpc[w].op = "Close" /\ ~closed.set
                         THEN [set |-> TRUE, Balance |-> u.db[ChannelID].Balance,
                               Count |-> u.db[ChannelID].Count,
                               log |-> u.payments[ChannelID]]
                         ELSE closed
    /\ UNCHANGED <<broadcast, concurrent, pair>>

\* The call of db.Update in Open, Send and Close.  Open and Send return
\* after it; Close goes on to broadcast the transaction.
DoUpdate(w) ==
    /\ rpc[w].pc = "update"
    /\ LET u == Update(db, payments, ChannelID, rpc[w].prev, rpc[w].new, rpc[w].blob)
       IN  /\ db' = u.db
           /\ payments' = u.payments
           /\ rpc' = [rpc EXCEPT
                        ![w].pc = IF u.err = "" /\ rpc[w].op = "Close" THEN "bcast" ELSE "done",
                        ![w].new = DefaultState,
                        ![w].res = IF u.err = "" THEN "ok" ELSE u.err]
           /\ closed' = IF u.err = "" /\ rpc[w].op = "Close" /\ ~closed.set
                         THEN [set |-> TRUE, Balance |-> u.db[ChannelID].Balance,
                               Count |-> u.db[ChannelID].Count,
                               log |-> u.payments[ChannelID]]
                         ELSE closed
    /\ UNCHANGED <<broadcast, concurrent, pair>>

\* The end of Receiver.Close: the raw transaction decodes and is submitted
\* to the node, which may fail.
Broadcast(w) ==
    /\ rpc[w].pc = "bcast"
    /\ broadcast' = rpc[w].rawTx
    /\ \E ok \in BOOLEAN :
         rpc' = [rpc EXCEPT ![w].pc = "done",
                            ![w].res = IF ok THEN "ok" ELSE "broadcast failed"]
    /\ UNCHANGED <<db, payments, concurrent, closed, pair>>

Next ==
    \E w \in Workers :
        \/ Create(w)
        \/ Open(w)
        \/ Validate(w)
        \/ Send(w)
        \/ Close(w)
        \/ Status(w)
        \/ DoUpdate(w)
        \/ Broadcast(w)
        \/ Respond(w)

Spec == Init /\ [][Next]_vars

\* ------------------------------------------------- the two roles side by side
\* A sender and a receiver role object driven by one client, as the roles'
\* methods are called in a payment round; no store and no server.
server == <<db, payments, broadcast, rpc, concurrent, closed>>

RoleInit ==
    /\ db = <<>>
    /\ payments = <<>>
    /\ broadcast = NoRawTx
    /\ rpc = [w \in Workers |-> IdleRpc]
    /\ concurrent = FALSE
    /\ closed = [set |-> FALSE, Balance |-> 0, Count |-> 0, log |-> <<>>]
    /\ pair = [NoPair EXCEPT !.phase = "new"]

\* The funding outputs the sender may have paid to the funding address and
\* the confirmations at which both sides learn of them.
FundingOutputs == {<<"txA", 0>>, <<"txB", 0>>} \X {1, 2}

\* OpenChannel, AcceptChannel and ReceivedPubKey: the exchange of the keys.
Handshake ==
    /\ pair.phase = "new"
    /\ \E kind \in {"p2pkh", "p2pk"} :
         LET o == OpenChannel("sender", kind)
             r == AcceptChannel(o.state, getKey)
             s == SenderReceivedPubKey(o.state, r.ReceiverPubKey, "p2pkh")
         IN  pair' = IF o.err # ""
                     THEN [pair EXCEPT !.err = o.err]
                     ELSE [pair EXCEPT !.sender = s.state, !.receiver = r,
                                       !.phase = "funding", !.err = s.err]
    /\ UNCHANGED server

\* Sender.FundingTxMined, whose signature opens the channel at the receiver.
FundingTxMined ==
    /\ pair.phase = "funding"
    /\ \E f \in FundingOutputs :
         LET addr == GetFundingScript(pair.sender).addr
             out == getTxOut(f[1][1], f[1][2], addr, f[2])
             s == SenderFundingTxMined(pair.sender, "sender", f[1][1], f[1][2],
                                       out.value, out.height)
             r == ReceiverOpen(pair.receiver, getKey, f[1][1], f[1][2],
                               out.value, out.height, s.sig)
         IN  /\ out.err = ""
             /\ pair' = [pair EXCEPT !.sender = s.state, !.receiver = r.state,
                                     !.phase = IF r.err = "" THEN "idle" ELSE "funding",
                                     !.sig = s.sig, !.err = r.err]
    /\ UNCHANGED server

\* Sender.PrepareSend for an amount the client chose.
PrepareSend ==
    /\ pair.phase = "idle"
    /\ pair.sender.Count < MaxCount
    /\ \E amount \in SendAmounts(pair.sender) :
         LET p == SenderPrepareSend(pair.sender, "sender", amount)
         IN  pair' = [pair EXCEPT !.sender = p.state, !.amount = amount,
                                  !.sig = p.sig, !.err = p.err,
                                  !.phase = IF p.err = "" THEN "prepared" ELSE "idle"]
    /\ UNCHANGED server

\* The payment never reaches the receiver: no acceptance arrives.
Lost ==
    /\ pair.phase = "prepared"
    /\ pair' = [pair EXCEPT !.phase = "idle", !.err = "lost"]
    /\ UNCHANGED server

\* channels.Receiver.Send with the sender's amount and signature.
RoleSend ==
    /\ pair.phase = "prepared"
    /\ LET o == ReceiverSend(pair.receiver, getKey, pair.amount, pair.sig)
       IN  pair' = [pair EXCEPT !.receiver = o.state, !.err = o.err,
                                !.phase = IF o.err = "" THEN "accepted" ELSE "idle"]
    /\ UNCHANGED server

\* Sender.SendAccepted on the receiver's acceptance.
SendAccepted ==
    /\ pair.phase = "accepted"
    /\ pair' = [pair EXCEPT !.sender = SenderSendAccepted(pair.sender, pair.amount),
                            !.phase = "idle", !.err = ""]
    /\ UNCHANGED server

RoleNext ==
    \/ Handshake
    \/ FundingTxMined
    \/ PrepareSend
    \/ Lost
    \/ RoleSend
    \/ SendAccepted

RoleSpec == RoleInit /\ [][RoleNext]_vars

\* ------------------------------------------------------------------ claims
Exists == ChannelID \in DOMAIN db

Chan == db[ChannelID]

\* Worker w's call of db.Update commits in this step.
Commits(w, op) ==
    /\ rpc[w].pc = "update"
    /\ rpc[w].op = op
    /\ rpc'[w].pc # "update"
    /\ rpc'[w].res = "ok"

\* C1: the persisted status of a channel never goes down and never skips a
\* step of NotStarted -> PreInfoGathered -> Open -> Closing -> Closed; a
\* created channel starts in PreInfoGathered.
C1_StatusOrder ==
    [][/\ (~Exists /\ Exists') => db'[ChannelID].Status = StatusPreInfoGathered
       /\ (Exists /\ Exists') =>
             db'[ChannelID].Status \in {Chan.Status, Chan.Status + 1}]_vars

\* C2: in every persisted state with status Open, Closing or Closed,
\* 0 <= balance and balance + fee <= fundingAmount.
C2_BalanceWithinFunding ==
    (Exists /\ Chan.Status \in {StatusOpen, StatusClosing, StatusClosed}) =>
        /\ 0 <= Chan.Balance
        /\ Chan.Balance + Chan.Fee <= Chan.FundingAmount

\* C3: in every persisted state with status Open or later the stored
\* senderSig signs the closure transaction of the current state, so the
\* transaction Close assembles passes validateTx.
C3_StoredSigValid ==
    (Exists /\ Chan.Status >= StatusOpen) =>
        /\ CheckSig(Chan.SenderSig, Chan.SenderPubKey, GetClosureTx(Chan, Chan.Balance))
        /\ validateTx(Chan, GetClosureTxSigned(Chan, Chan.Balance, Chan.SenderSig, getKey))

\* C4: once a Close has committed, the persisted balance, count and payment
\* log stay as they were at that commit: no later Send commits.
C4_CloseFinal ==
    closed.set =>
        /\ Chan.Balance = closed.Balance
        /\ Chan.Count = closed.Count
        /\ payments[ChannelID] = closed.log

\* Workers w and v both ran a Send up to db.Update from the same persisted
\* state, and both have called db.Update.
RaceDone(w, v) ==
    /\ w # v
    /\ rpc[w].pc = "done" /\ rpc[w].op = "Send" /\ rpc[w].res \in {"ok", "conflict"}
    /\ rpc[v].pc = "done" /\ rpc[v].op = "Send" /\ rpc[v].res \in {"ok", "conflict"}
    /\ rpc[w].prev = rpc[v].prev

\* Workers w and v both wait to call db.Update for a Send, and read the same
\* persisted state.
RacePending(w, v) ==
    /\ w # v
    /\ rpc[w].pc = "update" /\ rpc[w].op = "Send"
    /\ rpc[v].pc = "update" /\ rpc[v].op = "Send"
    /\ rpc[w].prev = rpc[v].prev

C5_Inv ==
    \A w, v \in Workers :
        RaceDone(w, v) =>
            /\ {rpc[w].res, rpc[v].res} = {"ok", "conflict"}
            /\ Chan.Count = rpc[w].prev.Count + 1
            /\ payments[ChannelID] # <<>>
            /\ rpc[w].res = "ok" =>
                  payments[ChannelID][Len(payments[ChannelID])] = rpc[w].blob

C5_Step ==
    \A w, v \in Workers :
        (RacePending(w, v) /\ rpc'[w].pc = "done") =>
            /\ rpc'[w].res = "ok"
            /\ db'[ChannelID].Count = Chan.Count + 1
            /\ payments'[ChannelID] = Append(payments[ChannelID], rpc[w].blob)

\* C5: of two Sends that read the same persisted state and both reach
\* db.Update, the first to call it commits (count + 1, its blob appended to
\* the log) and the other fails with a conflict: exactly one commits.
C5_OneSendCommits == []C5_Inv /\ [][C5_Step]_vars

C5_Witness ==
    \E w, v \in Workers :
        /\ RaceDone(w, v)
        /\ rpc[w].res = "ok"
        /\ rpc[v].res = "conflict"
        /\ rpc[w].blob # rpc[v].blob

\* Worker w's Open or Send gets an error response in this step.
Fails(w) ==
    /\ rpc[w].pc # "done"
    /\ rpc'[w].pc = "done"
    /\ rpc'[w].op \in {"Open", "Send"}
    /\ rpc'[w].res # "ok"

\* C6: a step in which an Open or a Send gets an error response leaves the
\* persisted record and the payment log as they were.
C6_FailureChangesNothing ==
    [][\A w \in Workers : Fails(w) => (db' = db /\ payments' = payments)]_vars

C6_Witness ==
    \E w, v \in Workers :
        /\ Exists
        /\ Chan.Count > 0
        /\ rpc[w].pc = "done" /\ rpc[w].op = "Send" /\ rpc[w].res = "invalid signature"
        /\ rpc[v].pc = "done" /\ rpc[v].op = "Open" /\ rpc[v].res = "conflict"

\* C7: once the persisted status has reached Open, fundingTxID, fundingVout,
\* fundingAmount and blockHeight never change.
C7_FundingImmutable ==
    [][(Exists /\ Chan.Status >= StatusOpen) =>
          /\ db'[ChannelID].FundingTxID = Chan.FundingTxID
          /\ db'[ChannelID].FundingVout = Chan.FundingVout
          /\ db'[ChannelID].FundingAmount = Chan.FundingAmount
          /\ db'[ChannelID].BlockHeight = Chan.BlockHeight]_vars

\* C8: a committed Send(amount) raises count by exactly 1 and balance by
\* exactly amount; no other step changes count.
C8_SendAdvances ==
    [][Exists =>
          IF \E w \in Workers : Commits(w, "Send")
          THEN \A w \in Workers :
                  Commits(w, "Send") =>
                      /\ db'[ChannelID].Count = Chan.Count + 1
                      /\ db'[ChannelID].Balance = Chan.Balance + rpc[w].blob.Amount
          ELSE db'[ChannelID].Count = Chan.Count]_vars

\* C9: on an open channel validateAmount accepts an amount, returning
\* balance + amount, exactly when amount > 0 and
\* balance + amount + fee <= fundingAmount; otherwise it fails and returns
\* the balance unchanged.
C9_ValidateAmountExact ==
    (Exists /\ Chan.Status = StatusOpen) =>
        \A a \in SendAmounts(Chan) :
            LET va == validateAmount(Chan, a)
                fits == a > 0 /\ Chan.Balance + a + Chan.Fee <= Chan.FundingAmount
            IN  /\ (va.err = "") <=> fits
                /\ va.err = "" => va.bal = Chan.Balance + a
                /\ va.err # "" => va.bal = Chan.Balance

\* C10: a committed Send never leaves a negative balance, and a Send whose
\* amount makes balance + amount or balance + amount + fee exceed the
\* integer range never commits.
C10_NoOverflowCommit ==
    [][\A w \in Workers :
          Commits(w, "Send") =>
              /\ db'[ChannelID].Balance >= 0
              /\ rpc[w].prev.Balance + rpc[w].blob.Amount + rpc[w].prev.Fee <= MaxInt]_vars

\* C11: the receiver role's Open succeeds only on a channel in status
\* PreInfoGathered: whenever a handler's Open has passed the role's Open and
\* is about to store its result, the state it loaded was PreInfoGathered.
C11_OpenOnlyFromPreInfoGathered ==
    \A w \in Workers :
        (rpc[w].op = "Open" /\ rpc[w].pc = "update") =>
            rpc[w].prev.Status = StatusPreInfoGathered

\* C12: the closure transaction of every persisted state spends the funding
\* outpoint and pays, receiver first and sender second, exactly the strictly
\* positive amounts among balance and fundingAmount - balance - fee.
C12_ClosureOutputs ==
    Exists =>
        LET tx == GetClosureTx(Chan, Chan.Balance)
            receiveAmount == Chan.Balance
            senderAmount == Chan.FundingAmount - Chan.Balance - Chan.Fee
        IN  /\ tx.txid = Chan.FundingTxID
            /\ tx.vout = Chan.FundingVout
            /\ tx.outs =
                 (IF receiveAmount > 0
                  THEN <<sendToAddress(receiveAmount, Chan.ReceiverPubKey)>> ELSE <<>>)
                 \o (IF senderAmount > 0
                     THEN <<sendToAddress(senderAmount, Chan.SenderPubKey)>> ELSE <<>>)

\* C13: an Open commits only on the proof of funding: the node knows the
\* named outpoint, it is not a coinbase output, it pays exactly the channel's
\* funding address, and its confirmations are at least MinFundingConf and at
\* most timeout - CloseWindow.
C13_OpenNeedsFunding ==
    [][\A w \in Workers :
         Commits(w, "Open") =>
            LET n == rpc[w].new
                addr == GetFundingScript(rpc[w].prev).addr
                out == NodeTxOut(n.FundingTxID, n.FundingVout, addr)
            IN  /\ db'[ChannelID] = n
                /\ n.Status = StatusOpen
                /\ out # <<>>
                /\ ~out[1].Coinbase
                /\ out[1].Addresses = <<addr>>
                /\ n.FundingAmount = out[1].Value
                /\ LET conf == n.BlockHeight - out[1].MinedAt + 1
                   IN  /\ MinFundingConf <= conf
                       /\ conf <= rpc[w].prev.Timeout - CloseWindow]_vars

C13_Witness ==
    /\ Exists
    /\ Chan.Status = StatusOpen
    /\ Chan.FundingTxID = "txA"
    /\ Chan.BlockHeight = 101
    /\ \E w \in Workers :
         rpc[w].pc = "done" /\ rpc[w].op = "Open" /\ rpc[w].res = "ok"

\* Worker w runs a Close that loaded the channel in status st and got past
\* the role's Close.
ClosePast(w, st) ==
    /\ rpc[w].op = "Close"
    /\ rpc[w].pc \in {"update", "bcast", "done"}
    /\ rpc[w].prev.Status = st

\* A Close of a channel that is already Closing goes on to db.Update with
\* the state unchanged.
C14_CloseAgain ==
    \A w \in Workers :
        (rpc[w].pc = "idle" /\ rpc'[w].op = "Close" /\ Exists
           /\ Chan.Status = StatusClosing) =>
            /\ rpc'[w].pc = "update"
            /\ rpc'[w].prev = Chan
            /\ rpc'[w].new = Chan
            /\ rpc'[w].rawTx.sigScript.senderSig = Chan.SenderSig

\* The db.Update of a Close whose loaded state is still the persisted one
\* commits and leads to the broadcast; a failed broadcast is reported and
\* leaves the store as it is.
C14_BroadcastStep ==
    \A w \in Workers :
        /\ (rpc[w].pc = "update" /\ rpc[w].op = "Close" /\ rpc'[w] # rpc[w]
              /\ rpc[w].prev = Chan) =>
              (rpc'[w].pc = "bcast" /\ db' = [db EXCEPT ![ChannelID] = rpc[w].new])
        /\ (rpc[w].pc = "bcast" /\ rpc'[w] # rpc[w]) =>
              /\ broadcast' = rpc[w].rawTx
              /\ rpc'[w].pc = "done"
              /\ rpc'[w].res \in {"ok", "broadcast failed"}
              /\ db' = db
              /\ payments' = payments

\* The transaction of a repeated Close is the one of the Close that made the
\* channel Closing: the one submitted last when handlers run one at a time,
\* and the one of any other handler whose Close led to the loaded state.
C14_SameTx ==
    \A w \in Workers :
        ClosePast(w, StatusClosing) =>
            /\ rpc[w].rawTx # NoRawTx
            /\ ~concurrent => broadcast = rpc[w].rawTx
            /\ \A v \in Workers :
                 (ClosePast(v, StatusOpen) /\ rpc[v].pc # "update"
                    /\ rpc[v].res # "conflict"
                    /\ rpc[w].prev = [rpc[v].prev EXCEPT !.Status = StatusClosing]) =>
                     rpc[w].rawTx = rpc[v].rawTx

\* C14: a broadcast failure after the Close commit is reported and the
\* persisted state stays Closing; a later Close succeeds again, returns the
\* same closure transaction and re-attempts the broadcast.
C14_CloseRepeatable ==
    []C14_SameTx /\ [][C14_CloseAgain /\ C14_BroadcastStep]_vars

C14_Witness ==
    \E w, v \in Workers :
        /\ ClosePast(v, StatusOpen)
        /\ rpc[v].pc = "done"
        /\ rpc[v].res = "broadcast failed"
        /\ ClosePast(w, StatusClosing)
        /\ rpc[w].pc = "done"
        /\ rpc[w].res = "ok"
        /\ rpc[w].rawTx = rpc[v].rawTx
        /\ rpc[w].prev.Balance > 0
        /\ Chan.Status = StatusClosing

\* C15: an operation on a channel id the store has no record of responds
\* with a NotFound error and leaves the store empty.
C15_NotFound ==
    \A w \in Workers :
        (/\ ~Exists
         /\ rpc[w].pc = "done"
         /\ rpc[w].op \in {"Open", "Validate", "Send", "Close", "Status"}) =>
            /\ rpc[w].res = "not found"
            /\ db = <<>>
            /\ payments = <<>>

\* The step is a call of the sender's PrepareSend.
IsPrepareSend == pair.phase = "idle" /\ pair' # pair

\* C16: PrepareSend(amount) returns the sender's signature over the closure
\* transaction that pays the receiver balance + amount, and leaves the
\* sender's state as it was whether it succeeds or fails; the sender's
\* balance and count change only in SendAccepted.
C16_PrepareSendPure ==
    [][/\ IsPrepareSend =>
            /\ pair'.sender = pair.sender
            /\ pair'.err = "" =>
                 pair'.sig = RawTxInSignature(
                                GetClosureTx(pair.sender,
                                             pair.sender.Balance + pair'.amount),
                                "sender")
       /\ (pair'.sender.Balance # pair.sender.Balance
             \/ pair'.sender.Count # pair.sender.Count) =>
            /\ pair.phase = "accepted"
            /\ pair'.sender.Balance = pair.sender.Balance + pair.amount
            /\ pair'.sender.Count = pair.sender.Count + 1]_vars

\* C19: between payment rounds the sender and the receiver hold the same
\* balance, count and funding fields, and the signature of the next
\* PrepareSend signs the closure transaction the receiver rebuilds, so the
\* receiver's Send accepts it.
C19_Mirrored ==
    /\ pair.phase \in {"idle", "prepared"} =>
          /\ pair.sender.Balance = pair.receiver.Balance
          /\ pair.sender.Count = pair.receiver.Count
          /\ pair.sender.FundingTxID = pair.receiver.FundingTxID
          /\ pair.sender.FundingVout = pair.receiver.FundingVout
          /\ pair.sender.FundingAmount = pair.receiver.FundingAmount
          /\ pair.sender.BlockHeight = pair.receiver.BlockHeight
    /\ pair.phase = "prepared" =>
          /\ pair.sig.tx =
               GetClosureTx(pair.receiver,
                            validateAmount(pair.receiver, pair.amount).bal)
          /\ validateSenderSig(pair.receiver, getKey,
                               validateAmount(pair.receiver, pair.amount).bal, pair.sig)
          /\ ReceiverSend(pair.receiver, getKey, pair.amount, pair.sig).err = ""

C19_Witness ==
    /\ pair.phase = "prepared"
    /\ pair.sender.Count = 1
    /\ pair.receiver.Count = 1
    /\ pair.receiver.Balance = 100000
    /\ pair.amount = 100000

\* The payment log is as long as the persisted count says.
C17_Inv == Exists => Len(payments[ChannelID]) = Chan.Count

\* The log changes only when a Send commits, which appends that Send's blob
\* at the end as the entry numbered by the count it commits.
C17_Step ==
    Exists =>
        \/ /\ payments'[ChannelID] = payments[ChannelID]
           /\ db'[ChannelID].Count = Chan.Count
        \/ \E w \in Workers :
              /\ Commits(w, "Send")
              /\ payments'[ChannelID] = Append(payments[ChannelID], rpc[w].blob)
              /\ db'[ChannelID].Count = Chan.Count + 1
              /\ payments'[ChannelID][db'[ChannelID].Count] = rpc[w].blob

\* C17: the payment log has as many entries as the persisted count, it only
\* grows by appending at its end, and its i-th entry is the blob of the Send
\* that committed count = i.
C17_LogMatchesCount == []C17_Inv /\ [][C17_Step]_vars

C17_Witness ==
    /\ Exists
    /\ Chan.Count = 2
    /\ Len(payments[ChannelID]) = 2
    /\ payments[ChannelID][1].Amount = 100000
    /\ payments[ChannelID][2].Amount # 100000
    /\ Chan.Balance = payments[ChannelID][1].Amount + payments[ChannelID][2].Amount

\* What a closure transaction pays to the receiver's key (0 without such an
\* output).
ReceiverAmount(rawTx) ==
    LET outs == rawTx.tx.outs
        mine == {k \in 1..Len(outs) : outs[k].PkScript = <<"p2pkh", derivePubKey(getKey)>>}
    IN  IF mine = {} THEN 0 ELSE outs[CHOOSE k \in mine : TRUE].Value

\* A handler is at the broadcast only after its own Close committed, and
\* the transaction it holds pays the receiver the balance it committed.
C18_Inv ==
    \A w \in Workers :
        rpc[w].pc = "bcast" =>
            /\ rpc[w].op = "Close"
            /\ rpc[w].res = "ok"
            /\ ReceiverAmount(rpc[w].rawTx) = rpc[w].prev.Balance

\* A transaction is submitted only by a handler at the broadcast; the
\* db.Update of a Close either is rejected, and then the handler responds
\* without a broadcast, or commits the balance that was persisted, which is
\* what the handler's transaction pays the receiver.
C18_Step ==
    /\ broadcast' # broadcast =>
          \E w \in Workers : rpc[w].pc = "bcast" /\ broadcast' = rpc[w].rawTx
    /\ \A w \in Workers :
          (rpc[w].pc = "update" /\ rpc[w].op = "Close" /\ rpc'[w] # rpc[w]) =>
              /\ broadcast' = broadcast
              /\ IF rpc[w].prev = Chan
                 THEN /\ rpc'[w].pc = "bcast"
                      /\ db'[ChannelID].Balance = Chan.Balance
                      /\ ReceiverAmount(rpc'[w].rawTx) = db'[ChannelID].Balance
                 ELSE /\ rpc'[w].pc = "done"
                      /\ rpc'[w].res = "conflict"
                      /\ db' = db

\* C18: whatever the interleaving of Sends and Closes, a closure transaction
\* is submitted only after that Close's compare-and-swap committed, and it
\* pays the receiver the balance persisted at that commit.
C18_BroadcastAfterCommit == []C18_Inv /\ [][C18_Step]_vars

\* C20: from one committed state of a channel to the next the balance never
\* goes down, and it goes up exactly when the commit is a Send; CloseMined
\* leaves it as it is.
C20_BalanceMonotonic ==
    [][(Exists /\ Exists') =>
          /\ db'[ChannelID].Balance >= Chan.Balance
          /\ db'[ChannelID].Balance > Chan.Balance
                <=> \E w \in Workers : Commits(w, "Send")
          /\ ReceiverCloseMined(db'[ChannelID]).Balance = db'[ChannelID].Balance]_vars

====
